---- MODULE Spec2Model ----
(***************************************************************************)
(* Model of the Android command bridge of dx_use_js_bridge                 *)
(* (src/src/android_bridge.rs): the pending queue PENDING_JS, the set-once *)
(* JavaVM cell, the flush attempts (try_flush_pending_js) run by the       *)
(* JNI_OnLoad thread, the registerInstance thread, registerInstance itself *)
(* and the fallback flusher loop, and the callback registry CALLBACKS with *)
(* its reverse dispatch entry point.                                       *)
(***************************************************************************)
EXTENDS Naturals, Sequences, FiniteSets

\* ---------------------------------------------------------------- bounds
\* Commands the producer issues: 1, 2, .. MaxCmds, in this order.
MaxCmds == 2
\* Calls of Java_dev_dioxus_main_JsBridge_registerInstance by the host.
MaxRegister == 1
\* Fallback loop threads the model has room for (the Once guard uses one).
MaxLoops == 2
\* Calls of the registry API and of the dispatch entry point.
MaxRegistryOps == 4
\* Messages the host sends to one bridge.
MaxMsgs == 3
\* Deepest nesting of JSON string encoding in a host-supplied value.
MaxLayers == 2
\* Calls of send_to_java.
MaxToJava == 1

\* `for _ in 0..150` of start_fallback_flusher.
FLUSH_ATTEMPTS == 150

Cmds == 1..MaxCmds
\* The threads that run try_flush_pending_js: the thread JNI_OnLoad spawns,
\* the thread registerInstance spawns, the caller of registerInstance (its
\* inline flush), and the fallback loop threads, numbered after them.
ProducerThread == 0
OnloadThread == 1
RegThread == 2
InlineThread == 3
OneShot == {OnloadThread, RegThread, InlineThread}
LoopThread(n) == InlineThread + n
LoopIds == {LoopThread(n) : n \in 1..MaxLoops}
Threads == OneShot \cup LoopIds

CallbackIds == {"x", "y"}
Handlers == {"h1", "h2"}
Payloads == {"p1", "p2"}
None == "none"

\* The values of the target type T a message can carry, and the host-supplied
\* values: a core (a T, or something that is no T) wrapped in `layers`
\* levels of JSON string encoding.
Ts == {"t1", "t2"}
Cores == Ts \cup {"junk"}
Values == [layers : 0..MaxLayers, core : Cores]
Targets == {"wasm32", "android"}

VARIABLES
    vm,         \* GLOBAL_JAVA_VM_CELL holds the process's JavaVM
    pending,    \* PENDING_JS
    started,    \* STARTED_FALLBACK_FLUSH has run
    restarted,  \* history: a start request found the guard already set
    spawned,    \* number of fallback loop threads spawned so far
    tick,       \* tick[l]: iterations the loop l has finished
    pc,         \* pc[t]: position of thread t
    items,      \* items[t]: the drained batch thread t has still to deliver
    sent,       \* <<command, thread>>: the calls that reached the Transport
                \* (MainActivity.evalJs via eval_js), in call order
    onloaded,   \* JNI_OnLoad has been called
    regCalls,   \* calls of registerInstance so far
    issued,     \* commands the producer has issued so far
    queued,     \* history: the commands passed to queue_js, in call order
    late,       \* history: a command was issued after the handle was set
    failed,     \* history: commands whose send call returned Err at once
    callbacks,  \* CALLBACKS
    wanted,     \* history: what the callers of the registry API asked for
    calls,      \* handler invocations <<handler, payload>>, in order
    misses,     \* "No callback found" lines logged by the entry point
    convErrors, \* "Failed to get/convert ..." lines logged by the entry point
    disp,       \* the dispatch entry point's current call
    regOps,     \* registry API and dispatch calls so far
    target,     \* the build target use_js_bridge runs on, None before it runs
    data,       \* JsBridge.data
    error,      \* JsBridge.error
    rx,         \* the messages in the channel of the Android handler
    received,   \* messages handed to the bridge by the host so far
    decoded,    \* messages the receive path has processed so far
    lastMsg,    \* history: the message the receive path processed last
    threw,      \* history: receive closures left by an exception
    evals,      \* the calls of eval_js and send_to_java with their outcome
    stageCmdQueue,  \* window._stageCmdQueue of the host page
    dispatched  \* the commands passed to window.dispatchStageCommand

registryVars == <<callbacks, wanted, calls, misses, convErrors, disp, regOps>>
producerVars == <<issued, queued, late, failed>>
hostVars == <<onloaded, regCalls>>
onceVars == <<started, restarted, spawned>>
queueVars == <<vm, pending, onceVars, tick, pc, items, sent, hostVars,
               producerVars>>
decodeVars == <<target, data, error, rx, received, decoded, lastMsg, threw>>
deliverVars == <<evals, stageCmdQueue, dispatched>>
vars == <<vm, pending, started, restarted, spawned, tick, pc, items, sent,
          onloaded, regCalls, issued, queued, late, failed, callbacks, wanted,
          calls, misses, convErrors, disp, regOps, target, data, error, rx,
          received, decoded, lastMsg, threw, evals, stageCmdQueue,
          dispatched>>

Idle == [stage |-> "idle", id |-> None, payload |-> None]

Init ==
    /\ vm = FALSE
    /\ pending = <<>>
    /\ started = FALSE
    /\ restarted = FALSE
    /\ spawned = 0
    /\ tick = [l \in LoopIds |-> 0]
    /\ pc = [t \in Threads |-> "idle"]
    /\ items = [t \in Threads |-> <<>>]
    /\ sent = <<>>
    /\ onloaded = FALSE
    /\ regCalls = 0
    /\ issued = 0
    /\ queued = <<>>
    /\ late = FALSE
    /\ failed = {}
    /\ callbacks = [i \in CallbackIds |-> None]
    /\ wanted = [i \in CallbackIds |-> None]
    /\ calls = <<>>
    /\ misses = 0
    /\ convErrors = 0
    /\ target = None
    /\ data = None
    /\ error = None
    /\ rx = <<>>
    /\ received = 0
    /\ decoded = 0
    /\ lastMsg = None
    /\ threw = 0
    /\ evals = <<>>
    /\ stageCmdQueue = <<>>
    /\ dispatched = <<>>
    /\ disp = Idle
    /\ regOps = 0

\* ------------------------------------------------------------ the handle
\* Variant of CellSet: a set attempt on a full cell takes the handle out.
CellSetTake(cell, ok) == IF cell THEN FALSE ELSE ok

\* OnceCell::set, reached when the handle was obtained (ok): the first set
\* stores, every later one is refused.  The process has one JavaVM, so the
\* cell is either empty or holds it.
CellSet(cell, ok) == cell \/ ok

\* Variant of GetJavaVm: the handle is reported ready at all times.
GetJavaVmAlways == TRUE

\* get_java_vm().is_some()
GetJavaVm == vm

\* ------------------------------------------------------------- producer
\* Variant of Push: the command is inserted at the head of the queue.
PushFront(q, json) == <<json>> \o q

\* queue_js(json): push under the PENDING_JS lock.
Push(q, json) == Append(q, json)

\* The PENDING_JS lock is held by a handler that is inside queue_js; every
\* other critical section of the lock is one step.
PendingLocked == disp.stage = "queueing"

QueueJs ==
    /\ issued < MaxCmds
    /\ ~PendingLocked
    /\ pending' = Push(pending, issued + 1)
    /\ issued' = issued + 1
    /\ queued' = Append(queued, issued + 1)
    /\ late' = (late \/ GetJavaVm)
    /\ UNCHANGED <<vm, onceVars, tick, pc, items, sent, hostVars, failed>>
    /\ UNCHANGED <<registryVars, decodeVars, deliverVars>>

\* eval_js: Err("Failed to get JavaVM") when the cell is empty, else the
\* code is handed to MainActivity.evalJs. The log records the call; the
\* Ok or Err the JNI steps then produce is returned to the caller and kept
\* nowhere.
EvalJs(log, json, by) ==
    IF GetJavaVm THEN Append(log, <<json, by>>) ELSE log

\* send_json_to_js_with_queue(json), called by the producer.
SendJson ==
    /\ issued < MaxCmds
    /\ issued' = issued + 1
    /\ sent' = EvalJs(sent, issued + 1, ProducerThread)
    /\ failed' = IF GetJavaVm THEN failed ELSE failed \cup {issued + 1}
    /\ late' = (late \/ GetJavaVm)
    /\ UNCHANGED <<vm, pending, onceVars, tick, pc, items, hostVars, queued>>
    /\ UNCHANGED <<registryVars, decodeVars, deliverVars>>

\* -------------------------------------------------------- flush attempts
\* Variant of AfterFlush: the loop ends with its first flush attempt.
AfterFlushBreak(t) == "done"

\* Variant of AfterFlush: the loop runs one iteration too many.
AfterFlushOffByOne(t) ==
    IF t \in LoopIds
    THEN IF tick[t] + 1 <= FLUSH_ATTEMPTS THEN "poll" ELSE "done"
    ELSE "done"

\* The position a thread takes when its try_flush_pending_js returns: a
\* one-shot thread ends, the fallback loop sleeps and counts the iteration.
AfterFlush(t) ==
    IF t \in LoopIds
    THEN IF tick[t] + 1 < FLUSH_ATTEMPTS THEN "poll" ELSE "done"
    ELSE "done"

Return(t) ==
    /\ pc' = [pc EXCEPT ![t] = AfterFlush(t)]
    /\ tick' = IF t \in LoopIds THEN [tick EXCEPT ![t] = @ + 1] ELSE tick

\* Variant of FlushCheck: the flush goes on without the readiness check.
FlushCheckUnguarded(t) ==
    /\ pc[t] = "check"
    /\ pc' = [pc EXCEPT ![t] = "lock"]
    /\ UNCHANGED <<vm, pending, onceVars, tick, items, sent, hostVars,
                   producerVars>>
    /\ UNCHANGED <<registryVars, decodeVars, deliverVars>>

\* try_flush_pending_js, line 44: return when the handle is not ready.
FlushCheck(t) ==
    /\ pc[t] = "check"
    /\ IF GetJavaVm
       THEN /\ pc' = [pc EXCEPT ![t] = "lock"]
            /\ UNCHANGED tick
       ELSE Return(t)
    /\ UNCHANGED <<vm, pending, onceVars, items, sent, hostVars, producerVars>>
    /\ UNCHANGED <<registryVars, decodeVars, deliverVars>>

\* Variant of DrainRest: the batch is copied and the queue keeps it.
DrainRestKeep(q) == q

\* Variant of DrainBatch: the batch misses the first command of the queue.
DrainBatchLossy(q) == Tail(q)

\* pending.drain(..).collect(): the batch taken and what is left behind.
DrainBatch(q) == q

DrainRest(q) == <<>>

\* try_flush_pending_js, lines 48-54, under the PENDING_JS lock.
FlushLock(t) ==
    /\ pc[t] = "lock"
    /\ ~PendingLocked
    /\ IF pending = <<>>
       THEN /\ Return(t)
            /\ UNCHANGED <<pending, items>>
       ELSE /\ items' = [items EXCEPT ![t] = DrainBatch(pending)]
            /\ pending' = DrainRest(pending)
            /\ pc' = [pc EXCEPT ![t] = "send"]
            /\ UNCHANGED tick
    /\ UNCHANGED <<vm, onceVars, sent, hostVars, producerVars>>
    /\ UNCHANGED <<registryVars, decodeVars, deliverVars>>

\* try_flush_pending_js, lines 60-64: one iteration of `for json in items`.
\* The result of the send is logged and dropped.
FlushSend(t) ==
    /\ pc[t] = "send"
    /\ sent' = EvalJs(sent, Head(items[t]), t)
    /\ items' = [items EXCEPT ![t] = Tail(@)]
    /\ IF Len(items[t]) = 1
       THEN Return(t)
       ELSE UNCHANGED <<pc, tick>>
    /\ UNCHANGED <<vm, pending, onceVars, hostVars, producerVars>>
    /\ UNCHANGED <<registryVars, decodeVars, deliverVars>>

\* start_fallback_flusher's loop, line 28: flush when the handle is ready,
\* else sleep and count the iteration.
LoopPoll(l) ==
    /\ pc[l] = "poll"
    /\ IF GetJavaVm
       THEN /\ pc' = [pc EXCEPT ![l] = "check"]
            /\ UNCHANGED tick
       ELSE Return(l)
    /\ UNCHANGED <<vm, pending, onceVars, items, sent, hostVars, producerVars>>
    /\ UNCHANGED <<registryVars, decodeVars, deliverVars>>

\* Variant of CallOnce: every start request runs the closure.
CallOnceAlways(done) == TRUE

\* STARTED_FALLBACK_FLUSH.call_once: whether this call runs the closure.
CallOnce(done) == ~done

\* start_fallback_flusher: the threads after the call, `others` being the
\* threads the caller spawns besides (a new loop thread starts at "poll"
\* when the closure ran).
StartLoop(others) ==
    /\ started' = TRUE
    /\ restarted' = (restarted \/ started)
    /\ IF CallOnce(started) /\ spawned < MaxLoops
       THEN /\ spawned' = spawned + 1
            /\ pc' = [t \in Threads |->
                        IF t = LoopThread(spawned + 1) THEN "poll"
                        ELSE IF t \in others THEN "check" ELSE pc[t]]
       ELSE /\ UNCHANGED spawned
            /\ pc' = [t \in Threads |->
                        IF t \in others THEN "check" ELSE pc[t]]

StartFallbackFlusher ==
    /\ StartLoop({})
    /\ UNCHANGED <<vm, pending, tick, items, sent, hostVars, producerVars>>
    /\ UNCHANGED <<registryVars, decodeVars, deliverVars>>

\* JNI_OnLoad: store_java_vm (JavaVM::from_raw may fail), then spawn the
\* thread that sleeps 50 ms and flushes.
JNI_OnLoad(ok) ==
    /\ ~onloaded
    /\ onloaded' = TRUE
    /\ vm' = CellSet(vm, ok)
    /\ pc' = [pc EXCEPT ![OnloadThread] = "check"]
    /\ UNCHANGED <<pending, onceVars, tick, items, sent, regCalls,
                   producerVars>>
    /\ UNCHANGED <<registryVars, decodeVars, deliverVars>>

\* registerInstance: set the cell when env.get_java_vm() succeeds, start the
\* fallback flusher, spawn a flushing thread, then flush inline.
RegisterInstance(ok) ==
    /\ regCalls < MaxRegister
    /\ pc[RegThread] \in {"idle", "done"}
    /\ pc[InlineThread] \in {"idle", "done"}
    /\ regCalls' = regCalls + 1
    /\ vm' = CellSet(vm, ok)
    /\ StartLoop({RegThread, InlineThread})
    /\ UNCHANGED <<pending, tick, items, sent, onloaded, producerVars>>
    /\ UNCHANGED <<registryVars, decodeVars, deliverVars>>

Next ==
    \/ QueueJs
    \/ SendJson
    \/ \E ok \in BOOLEAN : JNI_OnLoad(ok)
    \/ \E ok \in BOOLEAN : RegisterInstance(ok)
    \/ StartFallbackFlusher
    \/ \E t \in Threads : FlushCheck(t)
    \/ \E t \in Threads : FlushLock(t)
    \/ \E t \in Threads : FlushSend(t)
    \/ \E l \in LoopIds : LoopPoll(l)

Spec == Init /\ [][Next]_vars

\* The background threads are scheduled fairly; the producer and the host
\* (JNI_OnLoad, registerInstance, start requests) are not obliged to act.
Fairness ==
    /\ \A t \in Threads : WF_vars(FlushCheck(t))
    /\ \A t \in Threads : WF_vars(FlushLock(t))
    /\ \A t \in Threads : WF_vars(FlushSend(t))
    /\ \A l \in LoopIds : WF_vars(LoopPoll(l))

FairSpec == Spec /\ Fairness

\* ------------------------------------------------------ callback registry
\* Variant of Insert: an identifier that already has a handler keeps it.
InsertKeepFirst(m, id, h) == IF m[id] = None THEN [m EXCEPT ![id] = h] ELSE m

\* HashMap::insert: stores, replacing what the key held.
Insert(m, id, h) == [m EXCEPT ![id] = h]

\* Variant of Remove: the entry stays.
RemoveNothing(m, id) == m

\* HashMap::remove: removes the key if present.
Remove(m, id) == [m EXCEPT ![id] = None]

\* HashMap::get
Lookup(m, id) == m[id]

\* The CALLBACKS lock is held from the entry point's lookup to its return,
\* the handler's run included; a handler that panics never returns.
CallbacksLocked ==
    disp.stage \in {"holding", "queueing", "panicked", "blocked", "lockpanic"}

\* The locks the thread inside the entry point holds: the CALLBACKS guard
\* (line 301) while the handler runs, and the PENDING_JS guard (line 17)
\* while the handler is inside queue_js.
LocksHeld ==
    IF disp.stage \in {"holding", "blocked"} THEN {"CALLBACKS"}
    ELSE IF disp.stage = "queueing" THEN {"CALLBACKS", "PENDING_JS"}
    ELSE {}

\* register_callback(id, callback)
RegisterCallback(id, h) ==
    /\ regOps < MaxRegistryOps
    /\ ~CallbacksLocked
    /\ regOps' = regOps + 1
    /\ callbacks' = Insert(callbacks, id, h)
    /\ wanted' = [wanted EXCEPT ![id] = h]
    /\ UNCHANGED <<calls, misses, convErrors, disp>>
    /\ UNCHANGED <<queueVars, decodeVars, deliverVars>>

\* unregister_callback(id)
UnregisterCallback(id) ==
    /\ regOps < MaxRegistryOps
    /\ ~CallbacksLocked
    /\ regOps' = regOps + 1
    /\ callbacks' = Remove(callbacks, id)
    /\ wanted' = [wanted EXCEPT ![id] = None]
    /\ UNCHANGED <<calls, misses, convErrors, disp>>
    /\ UNCHANGED <<queueVars, decodeVars, deliverVars>>

\* Variant of OnMessageFromJava: a failed conversion is logged and the
\* call goes on to the lookup.
OnMessageFromJavaGoesOn(id, payload, idOk, payloadOk) ==
    /\ regOps < MaxRegistryOps
    /\ disp.stage = "idle"
    /\ regOps' = regOps + 1
    /\ convErrors' = IF idOk /\ payloadOk THEN convErrors ELSE convErrors + 1
    /\ disp' = [stage |-> "converted", id |-> id, payload |-> payload]
    /\ UNCHANGED <<callbacks, wanted, calls, misses>>
    /\ UNCHANGED <<queueVars, decodeVars, deliverVars>>

\* onMessageFromJava, lines 255-299: the identifier is converted, then the
\* payload; the first conversion that fails is logged and the call returns.
OnMessageFromJava(id, payload, idOk, payloadOk) ==
    /\ regOps < MaxRegistryOps
    /\ disp.stage = "idle"
    /\ regOps' = regOps + 1
    /\ IF idOk /\ payloadOk
       THEN /\ disp' = [stage |-> "converted", id |-> id, payload |-> payload]
            /\ UNCHANGED convErrors
       ELSE /\ disp' = Idle
            /\ convErrors' = convErrors + 1
    /\ UNCHANGED <<callbacks, wanted, calls, misses>>
    /\ UNCHANGED <<queueVars, decodeVars, deliverVars>>

\* onMessageFromJava, lines 301-302 and 305-307: lock CALLBACKS and look the
\* identifier up; without an entry, log and return.
DispatchLookup ==
    /\ disp.stage = "converted"
    /\ IF Lookup(callbacks, disp.id) # None
       THEN /\ disp' = [disp EXCEPT !.stage = "holding"]
            /\ UNCHANGED misses
       ELSE /\ disp' = Idle
            /\ misses' = misses + 1
    /\ UNCHANGED <<callbacks, wanted, calls, convErrors, regOps>>
    /\ UNCHANGED <<queueVars, decodeVars, deliverVars>>

\* onMessageFromJava, lines 303-304: the handler is called and returns, then
\* the entry point returns (the guard is dropped).
DispatchCall ==
    /\ disp.stage = "holding"
    /\ calls' = Append(calls, <<Lookup(callbacks, disp.id), disp.payload>>)
    /\ disp' = Idle
    /\ UNCHANGED <<callbacks, wanted, misses, convErrors, regOps>>
    /\ UNCHANGED <<queueVars, decodeVars, deliverVars>>

\* onMessageFromJava, line 303, with a handler that panics: nothing catches
\* the panic, which leaves the extern "system" function (the process aborts
\* or the unwinding enters the host's frames).
DispatchPanic ==
    /\ disp.stage = "holding"
    /\ calls' = Append(calls, <<Lookup(callbacks, disp.id), disp.payload>>)
    /\ disp' = [disp EXCEPT !.stage = "panicked"]
    /\ UNCHANGED <<callbacks, wanted, misses, convErrors, regOps>>
    /\ UNCHANGED <<queueVars, decodeVars, deliverVars>>

\* onMessageFromJava, line 303, with a handler that calls queue_js: the
\* handler takes the PENDING_JS lock (line 17) inside the CALLBACKS guard.
HandlerQueueJsLock ==
    /\ disp.stage = "holding"
    /\ issued < MaxCmds
    /\ disp' = [disp EXCEPT !.stage = "queueing"]
    /\ UNCHANGED <<callbacks, wanted, calls, misses, convErrors, regOps>>
    /\ UNCHANGED <<queueVars, decodeVars, deliverVars>>

\* Variant of HandlerQueueJsPush: the handler keeps the PENDING_JS guard.
HandlerQueueJsPushKeepsGuard ==
    /\ disp.stage = "queueing"
    /\ issued < MaxCmds
    /\ pending' = Push(pending, issued + 1)
    /\ issued' = issued + 1
    /\ queued' = Append(queued, issued + 1)
    /\ late' = (late \/ GetJavaVm)
    /\ UNCHANGED <<vm, onceVars, tick, pc, items, sent, hostVars, failed>>
    /\ UNCHANGED <<callbacks, wanted, calls, misses, convErrors, regOps, disp>>
    /\ UNCHANGED <<decodeVars, deliverVars>>

\* The handler's queue_js pushes and drops the PENDING_JS guard.
HandlerQueueJsPush ==
    /\ disp.stage = "queueing"
    /\ pending' = Push(pending, issued + 1)
    /\ issued' = issued + 1
    /\ queued' = Append(queued, issued + 1)
    /\ late' = (late \/ GetJavaVm)
    /\ disp' = [disp EXCEPT !.stage = "holding"]
    /\ UNCHANGED <<vm, onceVars, tick, pc, items, sent, hostVars, failed>>
    /\ UNCHANGED <<callbacks, wanted, calls, misses, convErrors, regOps>>
    /\ UNCHANGED <<decodeVars, deliverVars>>

\* onMessageFromJava, line 303, with a handler that sends a command with
\* send_json_to_js_with_queue: eval_js takes no lock of the bridge.
HandlerSendJson ==
    /\ disp.stage = "holding"
    /\ issued < MaxCmds
    /\ issued' = issued + 1
    /\ sent' = EvalJs(sent, issued + 1, ProducerThread)
    /\ failed' = IF GetJavaVm THEN failed ELSE failed \cup {issued + 1}
    /\ late' = (late \/ GetJavaVm)
    /\ UNCHANGED <<vm, pending, onceVars, tick, pc, items, hostVars, queued>>
    /\ UNCHANGED <<registryVars, decodeVars, deliverVars>>

\* What Mutex::lock does in the thread that already holds the mutex: it
\* never returns; the thread waits for itself for ever or panics.
RelockOutcomes == {"blocked", "lockpanic"}

\* onMessageFromJava, line 303, with a handler that calls register_callback
\* or unregister_callback: CALLBACKS.lock() (line 73 or 81) is reached in
\* the thread that holds the guard of line 301, for whatever identifier.
HandlerRegistryCall(o) ==
    /\ disp.stage = "holding"
    /\ disp' = [disp EXCEPT !.stage = o]
    /\ UNCHANGED <<callbacks, wanted, calls, misses, convErrors, regOps>>
    /\ UNCHANGED <<queueVars, decodeVars, deliverVars>>

NextRegistry ==
    \/ \E id \in CallbackIds, h \in Handlers : RegisterCallback(id, h)
    \/ \E id \in CallbackIds : UnregisterCallback(id)
    \/ \E id \in CallbackIds, p \in Payloads, idOk, payloadOk \in BOOLEAN :
          OnMessageFromJava(id, p, idOk, payloadOk)
    \/ DispatchLookup
    \/ DispatchCall
    \/ DispatchPanic
    \/ HandlerQueueJsLock
    \/ HandlerQueueJsPush
    \/ \E o \in RelockOutcomes : HandlerRegistryCall(o)

SpecRegistry == Init /\ [][NextRegistry]_vars

\* The dispatch entry point with handlers that return, enqueue or send,
\* next to a producer and the flush attempts of the one-shot threads.
NextDispatch ==
    \/ \E id \in CallbackIds, h \in Handlers : RegisterCallback(id, h)
    \/ \E id \in CallbackIds, p \in Payloads, idOk, payloadOk \in BOOLEAN :
          OnMessageFromJava(id, p, idOk, payloadOk)
    \/ DispatchLookup
    \/ DispatchCall
    \/ HandlerQueueJsLock
    \/ HandlerQueueJsPush
    \/ HandlerSendJson
    \/ QueueJs
    \/ \E ok \in BOOLEAN : JNI_OnLoad(ok)
    \/ \E t \in Threads : FlushCheck(t)
    \/ \E t \in Threads : FlushLock(t)
    \/ \E t \in Threads : FlushSend(t)

SpecDispatch == Init /\ [][NextDispatch]_vars

\* Every thread that can take a step takes it in the end: the dispatching
\* thread inside the entry point and the flushing threads.
FairnessDispatch ==
    /\ WF_vars(DispatchLookup)
    /\ WF_vars(DispatchCall)
    /\ WF_vars(HandlerQueueJsPush)
    /\ \A t \in Threads : WF_vars(FlushCheck(t))
    /\ \A t \in Threads : WF_vars(FlushLock(t))
    /\ \A t \in Threads : WF_vars(FlushSend(t))

FairSpecDispatch == SpecDispatch /\ FairnessDispatch

\* ------------------------------------------------------------ decode
Fail == "fail"
Throw == "throw"
DeserializationError == "Deserialization error"

\* serde's decode of a JSON document to T: the document must be a T itself,
\* a JSON string is none.
IsT(v) == v.layers = 0 /\ v.core \in Ts

\* val.into_serde(), lib.rs line 197: the strict structural decode.
IntoSerde(v) == IF IsT(v) THEN v.core ELSE Fail

\* serde_json::from_str::<T>(text), the text being the document v.
FromStr(v) == IF IsT(v) THEN v.core ELSE Fail

\* JsValue::as_string() is Some: the host's value is a JS string.
IsJsString(v) == v.layers > 0

\* String::from(JsString::from(val)), lines 205-206, for a JS string: its
\* text, one level of string encoding less than the value.
RustString(v) == [v EXCEPT !.layers = @ - 1]

\* The wasm callback closure's decode, lines 197-216.  js_sys reads the
\* string with as_string().unwrap_throw(): a value that is no JS string
\* makes the closure throw.
WasmDecode(v) ==
    IF IntoSerde(v) # Fail THEN IntoSerde(v)
    ELSE IF ~IsJsString(v) THEN Throw
    ELSE FromStr(RustString(v))

\* The Android effect's decode, line 280: serde_json::from_str::<T>(&json).
AndroidDecode(json) == FromStr(json)

\* What the receive paths do with the decode's result r (lines 198-216 and
\* 281-288): Ok sets data then clears error, Err sets error only; a closure
\* left by an exception sets nothing.  The result is <<data, error>>.
SetSignals(d, e, r) ==
    IF r = Throw THEN <<d, e>>
    ELSE IF r = Fail THEN <<d, DeserializationError>>
    ELSE <<r, None>>

\* use_js_bridge runs for the first time on one of the two targets: the
\* signals start as None, the Android build creates the channel.
UseJsBridge(t) ==
    /\ target = None
    /\ target' = t
    /\ data' = None
    /\ error' = None
    /\ rx' = <<>>
    /\ UNCHANGED <<received, decoded, lastMsg, threw>>
    /\ UNCHANGED <<queueVars, registryVars, deliverVars>>

\* wasm: the host calls window.__dioxus_bridge_<id>(val), lines 195-218.
WasmCallback(v) ==
    /\ target = "wasm32"
    /\ received < MaxMsgs
    /\ received' = received + 1
    /\ decoded' = decoded + 1
    /\ lastMsg' = v
    /\ data' = SetSignals(data, error, WasmDecode(v))[1]
    /\ error' = SetSignals(data, error, WasmDecode(v))[2]
    /\ threw' = IF WasmDecode(v) = Throw THEN threw + 1 ELSE threw
    /\ UNCHANGED <<target, rx>>
    /\ UNCHANGED <<queueVars, registryVars, deliverVars>>

\* Android: the registered handler, lines 269-274, sends the text into the
\* channel.
HandlerSend(json) ==
    /\ target = "android"
    /\ received < MaxMsgs
    /\ received' = received + 1
    /\ rx' = Append(rx, json)
    /\ UNCHANGED <<target, data, error, decoded, lastMsg, threw>>
    /\ UNCHANGED <<queueVars, registryVars, deliverVars>>

\* Android: one iteration of `while let Ok(json) = rx.try_recv()`, lines
\* 279-289.
AndroidReceive ==
    /\ target = "android"
    /\ rx # <<>>
    /\ rx' = Tail(rx)
    /\ decoded' = decoded + 1
    /\ lastMsg' = Head(rx)
    /\ data' = SetSignals(data, error, AndroidDecode(Head(rx)))[1]
    /\ error' = SetSignals(data, error, AndroidDecode(Head(rx)))[2]
    /\ UNCHANGED <<target, received, threw>>
    /\ UNCHANGED <<queueVars, registryVars, deliverVars>>

NextDecode ==
    \/ \E t \in Targets : UseJsBridge(t)
    \/ \E v \in Values : WasmCallback(v)
    \/ \E v \in Values : HandlerSend(v)
    \/ AndroidReceive

SpecDecode == Init /\ [][NextDecode]_vars

\* ------------------------------------------------- delivery and its outcome
\* What the host does with the static method call: it runs the method, the
\* method throws, or a JNI step before the method fails (attach, find_class,
\* new_string) without an exception.
HostOutcomes == {"ok", "throws", "jni_error"}

\* env.call_static_method(..), lines 197-198 and 235-236: jni checks for a
\* pending exception after the call and returns Err(JavaException) with the
\* exception still pending; a JNI failure is an Err without one.
CallStaticMethod(h) ==
    [err |-> h # "ok", pending |-> h = "throws"]

\* The JNI part of eval_js and send_to_java, lines 181-211 and 219-249: `?`
\* returns the Err of the call as it is; after an Ok call exception_check
\* decides between describe, clear, Err and Ok.
JniCall(h) ==
    LET call == CallStaticMethod(h)
    IN  IF call.err
        THEN [result |-> "Err", pending |-> call.pending]
        ELSE IF call.pending
             THEN [result |-> "Err", pending |-> FALSE]
             ELSE [result |-> "Ok", pending |-> FALSE]

\* One call of eval_js or send_to_java as the log keeps it: the operation,
\* its argument, the calling thread, whether the host method ran and whether
\* it raised a fault, the state of window.dispatchStageCommand the code
\* found, the Result returned and the thread's pending exception at return.
EvalRecord(op, arg, by, h, inst) ==
    IF ~GetJavaVm
    THEN [op |-> op, arg |-> arg, by |-> by, ran |-> FALSE, fault |-> FALSE,
          installed |-> inst, result |-> "Err", pending |-> FALSE]
    ELSE [op |-> op, arg |-> arg, by |-> by, ran |-> h = "ok",
          fault |-> h = "throws", installed |-> inst,
          result |-> JniCall(h).result, pending |-> JniCall(h).pending]

\* Variant of Route: a command that is dispatched is queued as well.
RouteBoth(q, d, c, inst) ==
    IF inst THEN <<Append(q, c), Append(d, c)>> ELSE <<Append(q, c), d>>

\* The code send_json_to_js_with_queue hands to eval_js, lines 315-325: with
\* no function at window.dispatchStageCommand the command is pushed on
\* window._stageCmdQueue, else it is passed to the function.  The result is
\* <<_stageCmdQueue, commands dispatched>>.
Route(q, d, c, inst) ==
    IF inst THEN <<q, Append(d, c)>> ELSE <<Append(q, c), d>>

\* The effect of one eval_js on the host page: the code runs when the host
\* method ran.
HostPage(rec) ==
    IF rec.ran
    THEN /\ stageCmdQueue' =
               Route(stageCmdQueue, dispatched, rec.arg, rec.installed)[1]
         /\ dispatched' =
               Route(stageCmdQueue, dispatched, rec.arg, rec.installed)[2]
    ELSE UNCHANGED <<stageCmdQueue, dispatched>>

\* Variant of RestOfBatch: an Err ends the delivery of the batch.
RestOfBatchAbort(its, result) == IF result = "Err" THEN <<>> ELSE Tail(its)

\* `for json in items`, lines 60-64: the Err of a send is logged and the loop
\* goes on with the next command.
RestOfBatch(its, result) == Tail(its)

\* try_flush_pending_js, lines 60-64, with the outcome of the send: one
\* iteration of the loop, the host's reaction h and the state inst of the
\* page being inputs.
FlushSendEval(t, h, inst) ==
    /\ pc[t] = "send"
    /\ LET rec == EvalRecord("eval_js", Head(items[t]), t, h, inst)
           rest == RestOfBatch(items[t], rec.result)
       IN  /\ evals' = Append(evals, rec)
           /\ HostPage(rec)
           /\ items' = [items EXCEPT ![t] = rest]
           /\ IF rest = <<>>
              THEN Return(t)
              ELSE UNCHANGED <<pc, tick>>
    /\ sent' = EvalJs(sent, Head(items[t]), t)
    /\ UNCHANGED <<vm, pending, onceVars, hostVars, producerVars>>
    /\ UNCHANGED <<registryVars, decodeVars>>

\* send_json_to_js_with_queue(json), called by the producer, with the
\* outcome of the send.
SendJsonEval(h, inst) ==
    /\ issued < MaxCmds
    /\ issued' = issued + 1
    /\ LET rec == EvalRecord("eval_js", issued + 1, ProducerThread, h, inst)
       IN  /\ evals' = Append(evals, rec)
           /\ HostPage(rec)
    /\ sent' = EvalJs(sent, issued + 1, ProducerThread)
    /\ failed' = IF GetJavaVm THEN failed ELSE failed \cup {issued + 1}
    /\ late' = (late \/ GetJavaVm)
    /\ UNCHANGED <<vm, pending, onceVars, tick, pc, items, hostVars, queued>>
    /\ UNCHANGED <<registryVars, decodeVars>>

ToJavaCalls == {i \in 1..Len(evals) : evals[i].op = "send_to_java"}

\* send_to_java(message), lines 215-250.
SendToJava(msg, h) ==
    /\ Cardinality(ToJavaCalls) < MaxToJava
    /\ evals' = Append(evals,
                  EvalRecord("send_to_java", msg, ProducerThread, h, FALSE))
    /\ UNCHANGED <<stageCmdQueue, dispatched>>
    /\ UNCHANGED <<queueVars, registryVars, decodeVars>>

NextDeliver ==
    \/ QueueJs
    \/ \E ok \in BOOLEAN : JNI_OnLoad(ok)
    \/ \E t \in Threads : FlushCheck(t)
    \/ \E t \in Threads : FlushLock(t)
    \/ \E t \in Threads, h \in HostOutcomes, inst \in BOOLEAN :
          FlushSendEval(t, h, inst)
    \/ \E h \in HostOutcomes, inst \in BOOLEAN : SendJsonEval(h, inst)
    \/ \E msg \in Payloads, h \in HostOutcomes : SendToJava(msg, h)

SpecDeliver == Init /\ [][NextDeliver]_vars

\* ================================================================ claims
Range(q) == {q[i] : i \in 1..Len(q)}

\* The commands of the Transport calls, in call order.
SentCmds == [i \in 1..Len(sent) |-> sent[i][1]]

\* No flush attempt is under way.
Quiescent == \A t \in Threads : pc[t] \notin {"check", "lock", "send"}

NoDuplicateSent ==
    \A i, j \in 1..Len(sent) : i # j => sent[i][1] # sent[j][1]

GaveUp(l) == pc[l] = "done"

\* C1: when every command was enqueued with queue_js before the handle was
\* set, the Transport calls, the one batch being delivered and the queue
\* make up the enqueued sequence in order, and once the handle is set and
\* the flush attempts have ended the Transport has received exactly the
\* enqueued commands in enqueue order and the queue is empty.
C1_QueueingBeforeReady ==
    ~late =>
      /\ \E t \in Threads :
            /\ SentCmds \o items[t] \o pending = queued
            /\ \A u \in Threads \ {t} : items[u] = <<>>
      /\ (GetJavaVm /\ Quiescent) => (SentCmds = queued /\ pending = <<>>)

C1_Witness ==
    /\ ~late
    /\ GetJavaVm
    /\ Quiescent
    /\ Len(queued) = MaxCmds
    /\ SentCmds = queued
    /\ pending = <<>>

\* C2: a send attempt made while the handle is not ready does not fail at
\* once: every command issued is in the pending queue, in a drained batch
\* or handed to the Transport, and no send call has returned the
\* not-ready error.
C2_Claim ==
    \A c \in 1..issued :
        /\ c \notin failed
        /\ \/ c \in Range(pending)
           \/ c \in Range(SentCmds)
           \/ \E t \in Threads : c \in Range(items[t])

\* C3: the Transport calls carry the producer's commands in the order the
\* producer issued them (command numbers increase along the calls).
C3_Claim ==
    \A i, j \in 1..Len(sent) : i < j => sent[i][1] < sent[j][1]

\* C4: the batches of concurrent flush attempts are disjoint, and no
\* command is handed to the Transport twice or is at once in a batch and in
\* the queue or already handed over.
C4_NoDoubleDelivery ==
    /\ \A t, u \in Threads :
          t # u => Range(items[t]) \cap Range(items[u]) = {}
    /\ \A t \in Threads :
          /\ Range(items[t]) \cap Range(pending) = {}
          /\ Range(items[t]) \cap Range(SentCmds) = {}
          /\ \A i, j \in 1..Len(items[t]) : i # j => items[t][i] # items[t][j]
    /\ NoDuplicateSent

C4_Witness ==
    \E t, u \in Threads :
        /\ t # u
        /\ pc[t] = "send" /\ items[t] # <<>>
        /\ pc[u] = "send" /\ items[u] # <<>>

\* C5: once the handle is set, every command in the pending queue is
\* eventually handed to the Transport.
C5_Claim ==
    \A c \in Cmds :
        (GetJavaVm /\ c \in Range(pending)) ~> (c \in Range(SentCmds))

\* C6 as stated: when the fallback loop has delivered the last command of a
\* drained batch, the loop ends.
C6_Claim ==
    [][\A l \in LoopIds :
          (pc[l] = "send" /\ pc'[l] # "send") => pc'[l] = "done"]_vars

\* C6 amended: a delivered batch does not end the fallback loop; the end
\* of each flush attempt counts one iteration, the loop polls again while
\* fewer than FLUSH_ATTEMPTS iterations are done, and it ends only with the
\* last one.
C6_LoopRunsAllAttempts ==
    /\ [][\A l \in LoopIds :
            (pc[l] = "send" /\ pc'[l] # "send") =>
               /\ tick'[l] = tick[l] + 1
               /\ pc'[l] = IF tick'[l] < FLUSH_ATTEMPTS
                           THEN "poll" ELSE "done"]_vars
    /\ [](\A l \in LoopIds : pc[l] = "done" => tick[l] = FLUSH_ATTEMPTS)

\* The loop has delivered a command and is in a later flush attempt, about
\* to drain again.
C6_Witness ==
    \E l \in LoopIds :
        /\ pc[l] = "lock"
        /\ pending # <<>>
        /\ \E i \in 1..Len(sent) : sent[i][2] = l

\* C7: at most one fallback loop is ever spawned, whatever the number of
\* start requests, and no command is handed to the Transport twice.
C7_IdempotentStart ==
    /\ spawned <= 1
    /\ (started <=> spawned = 1)
    /\ \A l \in LoopIds \ {LoopThread(1)} : pc[l] = "idle"
    /\ NoDuplicateSent

\* A repeated start request was made, and the one queued command was handed
\* to the Transport by the loop, once.
C7_Witness ==
    /\ restarted
    /\ queued = <<1>>
    /\ sent = << <<1, LoopThread(1)>> >>

C9_GiveUpKeepsQueue ==
    /\ []((~GetJavaVm /\ \E l \in LoopIds : GaveUp(l)) =>
            /\ pending = queued
            /\ sent = <<>>
            /\ \A t \in Threads : items[t] = <<>>)
    /\ [][((\E l \in LoopIds : GaveUp(l)) /\ pending' # pending) =>
            \/ \E c \in Cmds : pending' = Append(pending, c)
            \/ /\ GetJavaVm
               /\ pending' = <<>>
               /\ \E t \in Threads :
                     /\ pc[t] = "lock"
                     /\ items'[t] = pending]_vars

C9_Witness ==
    /\ ~GetJavaVm
    /\ GaveUp(LoopThread(1))
    /\ Len(pending) = MaxCmds
    /\ pending = queued

\* C10: a dispatch that finds its identifier registered calls, once, the
\* handler last registered under it with the payload of the dispatch; a
\* dispatch whose identifier is not registered calls nothing and returns;
\* no other step calls a handler.
C10_RegistryRoundTrip ==
    [][/\ (disp.stage = "converted" /\ disp'.stage = "holding") =>
             /\ wanted[disp.id] # None
             /\ calls' = calls
       /\ (disp.stage = "converted" /\ disp'.stage = "idle") =>
             /\ wanted[disp.id] = None
             /\ calls' = calls
             /\ misses' = misses + 1
       /\ (disp.stage = "holding" /\ disp'.stage \in {"idle", "panicked"}) =>
             calls' = Append(calls, <<wanted[disp.id], disp.payload>>)
       /\ (calls' # calls) =>
             (disp.stage = "holding" /\ disp'.stage \in {"idle", "panicked"})
       /\ (disp.stage \in {"holding", "queueing"}) => wanted' = wanted]_vars

\* One handler was registered, called once with the payload, unregistered,
\* and a dispatch then found nothing to call.
C10_Witness ==
    /\ calls = << <<"h1", "p1">> >>
    /\ misses = 1
    /\ \A id \in CallbackIds : wanted[id] = None /\ callbacks[id] = None
    /\ regOps = MaxRegistryOps
    /\ disp.stage = "idle"

\* C11: the registry holds, for every identifier, exactly the handler most
\* recently registered under it and not unregistered since (none when there
\* is no such handler), so registering again replaces the earlier handler and
\* one unregister removes the entry; the handler a dispatch is about to call
\* is that most recently registered one.
C11_OneHandlerPerId ==
    /\ \A id \in CallbackIds : Lookup(callbacks, id) = wanted[id]
    /\ (disp.stage \in {"holding", "queueing"}) =>
          /\ wanted[disp.id] # None
          /\ Lookup(callbacks, disp.id) = wanted[disp.id]

\* "x" was registered with h1 and dispatched to, registered again with h2 and
\* dispatched to again: the second dispatch called h2 only.
C11_Witness ==
    /\ calls = << <<"h1", "p1">>, <<"h2", "p1">> >>
    /\ wanted["x"] = "h2"
    /\ callbacks["y"] = None
    /\ regOps = MaxRegistryOps
    /\ disp.stage = "idle"

\* C12: once the cell holds a handle, no step changes what it holds: a later
\* set attempt, by JNI_OnLoad or by registerInstance, leaves the stored handle
\* in place, and the cell never becomes empty again.
C12_SetOnce ==
    [][GetJavaVm => (vm' = vm /\ GetJavaVm')]_vars

\* Both host calls were made, so at most one of their set attempts found the
\* cell empty, and the handle is still there after every command was sent.
C12_Witness ==
    /\ GetJavaVm
    /\ onloaded
    /\ regCalls = MaxRegister
    /\ Len(sent) = MaxCmds

\* C13: the reverse dispatch entry point always returns normally to the
\* host: no dispatch ends with a failure of the handler leaving the entry
\* point instead of a return.
C13_Claim ==
    disp.stage # "panicked"

\* C18: in no reachable state does the thread inside the dispatch entry
\* point hold the callback-registry lock and the pending-queue lock together.
C18_Claim ==
    Cardinality(LocksHeld) <= 1

\* C20: a call of the entry point in which the conversion of the identifier
\* or of the payload fails returns at once: no handler is called or about to
\* be called, and the registry and the pending queue are as before.
C20_ConversionFailureAborts ==
    [][(convErrors' # convErrors) =>
          /\ disp.stage = "idle"
          /\ disp' = Idle
          /\ calls' = calls
          /\ callbacks' = callbacks
          /\ pending' = pending]_vars

\* A handler is registered, one call of the entry point failed to convert
\* an argument, and nothing was called.
C20_Witness ==
    /\ convErrors = 1
    /\ \E id \in CallbackIds : callbacks[id] # None
    /\ calls = <<>>
    /\ misses = 0
    /\ regOps = 2
    /\ disp.stage = "idle"

\* A value that is a JSON-encoded string whose contents decode to T; the
\* strict decode of such a value fails.
IsEncodedT(v) == v.layers = 1 /\ v.core \in Ts

\* C14: on both receive paths, a message that fails the strict decode but is
\* a JSON-encoded string whose contents decode to T is accepted: after it is
\* processed, data is Some(parsed) and error is None.
C14_Claim ==
    [][(decoded' # decoded /\ IsEncodedT(lastMsg')) =>
          (data' = lastMsg'.core /\ error' = None)]_vars

\* C15: every processed message either decodes, and then data is the parsed
\* value and error is None, or does not decode, and then error is set and
\* data keeps its value.
C15_Claim ==
    [][(decoded' # decoded) =>
          \/ (data' \in Ts /\ data' = lastMsg'.core /\ error' = None)
          \/ (data' = data /\ error' = DeserializationError)]_vars

\* C16: every call of eval_js or send_to_java during which the host raised a
\* fault returned Err, and the host's pending fault was cleared when the call
\* returned.
C16_Claim ==
    \A i \in 1..Len(evals) :
        evals[i].fault => (evals[i].result = "Err" /\ ~evals[i].pending)

\* The commands of the calls of a log, in call order.
ArgsOf(log) == [i \in 1..Len(log) |-> log[i].arg]

RanQueued(rec) == rec.op = "eval_js" /\ rec.ran /\ ~rec.installed
RanDispatched(rec) == rec.op = "eval_js" /\ rec.ran /\ rec.installed

\* C17: the commands whose code ran on the host page are, each exactly once
\* and in the order of delivery, in the list of commands passed to the
\* dispatch function (those that found one installed) or in the host-local
\* pending list (those that found none), never in both.
C17_EnvelopeRouting ==
    /\ stageCmdQueue = ArgsOf(SelectSeq(evals, RanQueued))
    /\ dispatched = ArgsOf(SelectSeq(evals, RanDispatched))

\* Both commands were delivered, the first found no dispatch function and
\* the second found one.
C17_Witness ==
    /\ Len(evals) = MaxCmds
    /\ stageCmdQueue = <<1>>
    /\ dispatched = <<2>>

\* The commands thread t has handed to eval_js so far, in call order.
HandedBy(t) ==
    LET ByT(rec) == rec.op = "eval_js" /\ rec.by = t
    IN  ArgsOf(SelectSeq(evals, ByT))

\* How often c occurs in the sequence q.
Count(q, c) == Cardinality({i \in 1..Len(q) : q[i] = c})

\* C19: every command passed to queue_js is in exactly one place, once: in
\* the queue, in the undelivered rest of one thread's batch, or among the
\* commands a flushing thread has handed to the Transport; and each thread
\* hands over its commands, the rest of its batch included, in queue order.
\* The results of the sends play no part.
C19_BatchRunsToCompletion ==
    /\ \A c \in Range(queued) :
          Count(pending, c)
            + Cardinality({t \in Threads : Count(items[t], c) = 1})
            + Cardinality({t \in Threads : Count(HandedBy(t), c) = 1}) = 1
    /\ \A t \in Threads, c \in Cmds :
          Count(items[t], c) <= 1 /\ Count(HandedBy(t), c) <= 1
    /\ \A t \in Threads :
          LET all == HandedBy(t) \o items[t]
          IN  \A i, j \in 1..Len(all) : i < j => all[i] < all[j]

\* One thread drained a batch of two commands; the send of the first returned
\* Err and the second was handed over all the same.
C19_Witness ==
    \E t \in Threads :
        /\ items[t] = <<>>
        /\ pc[t] = "done"
        /\ Len(evals) = 2
        /\ evals[1].by = t /\ evals[1].arg = 1 /\ evals[1].result = "Err"
        /\ evals[2].by = t /\ evals[2].arg = 2
        /\ queued = <<1, 2>>

\* The places a command passed to queue_js can be in.
InQueue(c) == Count(pending, c)
InBatches(c) == Cardinality({<<t, i>> \in Threads \X (1..MaxCmds) :
                               i <= Len(items[t]) /\ items[t][i] = c})
HandedOver(c) == Count(SentCmds, c)

\* C23: every command passed to queue_js is in exactly one place, once: in
\* the pending queue, in the batch of one flush attempt, or handed to the
\* Transport; the queue grows only by a queue_js call appending the command
\* it was called with, so no command is put back, and it shrinks only by a
\* drain that moves the whole queue into the batch of the draining thread.
C23_Conservation ==
    /\ [](\A c \in Range(queued) :
             InQueue(c) + InBatches(c) + HandedOver(c) = 1)
    /\ [][(pending' # pending) =>
            \/ /\ issued' = issued + 1
               /\ pending' = Append(pending, issued')
               /\ queued' = Append(queued, issued')
            \/ /\ pending' = <<>>
               /\ \E t \in Threads : items[t] = <<>> /\ items'[t] = pending]_vars

\* Every command was passed to queue_js; one is still in the queue, another
\* is in the batch of a flush attempt or already handed over.
C23_Witness ==
    /\ Len(queued) = MaxCmds
    /\ Len(pending) = 1
    /\ \E t \in Threads : pc[t] = "send" /\ Len(items[t]) = 1
    /\ Len(sent) = MaxCmds - 2

\* C24: a flush attempt that finds the handle unset, or the queue empty,
\* returns: it takes no batch, makes no Transport call and leaves the queue
\* as it was; and the queue loses commands only in a step taken with the
\* handle set.
C24_FlushFrame ==
    [][/\ \A t \in Threads :
            ((pc[t] = "check" /\ pc'[t] # "check" /\ ~vm)
               \/ (pc[t] = "lock" /\ pc'[t] # "lock" /\ pending = <<>>))
            => (/\ pc'[t] \in {"poll", "done"}
                /\ pending' = pending
                /\ sent' = sent
                /\ items' = items)
       /\ (Len(pending') < Len(pending)) => (vm /\ vm')]_vars

\* The threads of JNI_OnLoad and of registerInstance made their flush
\* attempts and ended; no command was ever issued, so each attempt found the
\* handle unset or the queue empty, and nothing was sent.
C24_Witness ==
    /\ pc[OnloadThread] = "done"
    /\ pc[RegThread] = "done"
    /\ vm
    /\ issued = 0
    /\ sent = <<>>
    /\ pending = <<>>

\* C22: a dispatch whose handler calls register_callback or
\* unregister_callback completes: the dispatching thread is never stopped at
\* the registry lock it holds itself.
C22_Claim ==
    disp.stage \notin RelockOutcomes

\* C21: the handler is entered with the pending-queue lock not held by the
\* dispatching thread, and every dispatch under way completes, whatever the
\* handler enqueues or sends and whatever the producer and the flush attempts
\* do meanwhile.
C21_DispatchCompletes ==
    /\ [][(disp.stage = "converted" /\ disp'.stage = "holding") =>
            ~PendingLocked']_vars
    /\ (disp.stage \in {"converted", "holding", "queueing"})
          ~> (disp.stage = "idle")

\* The handler is inside queue_js, holding the pending-queue lock, while a
\* flush attempt with the handle set is about to take the same lock and the
\* producer has enqueued a command.
C21_Witness ==
    /\ disp.stage = "queueing"
    /\ pending # <<>>
    /\ \E t \in Threads : pc[t] = "lock"

====
